---- MODULE Spec2Model ----
(***************************************************************************)
(* Model of rasa/core/broker.py: the event-channel factory, the RabbitMQ   *)
(* SSL option builder and the four event producers (Pika, File, Kafka,     *)
(* SQL).                                                                   *)
(*                                                                         *)
(* Python values are encoded as follows.                                   *)
(*   - a str is a sequence of one-character strings, so that lower(),      *)
(*     startswith(), rpartition() and json.dumps() work on its characters; *)
(*   - an Optional value is a sequence of length 0 (None) or 1;            *)
(*   - the outcome of a call is a record: it returned a value or raised.   *)
(***************************************************************************)
EXTENDS Integers, Sequences, FiniteSets, TLC

VARIABLES
    fpc, fcfg, fres, flog,          \* factory: position, broker_config, outcome, warnings logged
    spc, senv, shost, sres,         \* SSL option builder: position, os.environ, argument, outcome
    mode,                           \* how the callers of publish behave: one at a time, or overlapping
    adapter,                        \* the PikaProducer or KafkaProducer instance's constructor-set fields
    self_connection, self_channel,  \* PikaProducer.connection / .channel: 0 is None, else a connection id
    self_producer,                  \* KafkaProducer.producer: 0 is None, else a producer id
    conns,                          \* every connection / producer the library has created, by id
    pc, cur,                        \* per caller: position inside publish, and its call's index in calls
    calls,                          \* what each publish call was given and did
    handlers,                       \* logging.getLogger("event-logger").handlers: the file each writes
    producers,                      \* the FileProducer instances: path, and the events published on each
    files,                          \* the lines of every log file
    session_new, session_active,    \* SQLProducer.session: pending objects, transaction usable
    rows,                           \* the committed rows of the events table
    sqlcalls                        \* what each SQLProducer.publish call was given and how it ended

vars == <<fpc, fcfg, fres, flog, spc, senv, shost, sres, mode, adapter, self_connection,
          self_channel, self_producer, conns, pc, cur, calls, handlers, producers, files,
          session_new, session_active, rows, sqlcalls>>
fileVars == <<handlers, producers, files>>
sqlVars == <<session_new, session_active, rows, sqlcalls>>
connVars == <<mode, adapter, self_connection, self_channel, self_producer, conns, pc, cur, calls>>
factoryVars == <<fpc, fcfg, fres, flog>>
sslVars == <<spc, senv, shost, sres>>

\* ------------------------------------------------------------------ values

None == << >>
Some(x) == <<x>>
IsNone(o) == Len(o) = 0
Get(o) == o[1]

\* bool(s) of an Optional[str]: None and "" are falsy
Truthy(o) == Len(o) = 1 /\ Len(o[1]) > 0

Returned(v) == [out |-> "return", val |-> v, err |-> "-"]
Raised(e) == [out |-> "raise", val |-> "-", err |-> e]
NotCalled == [out |-> "-", val |-> "-", err |-> "-"]

\* str.lower() on the letters the model uses
LowerChar(c) ==
    CASE c = "S" -> "s" [] c = "Q" -> "q" [] c = "L" -> "l"
      [] c = "P" -> "p" [] c = "I" -> "i" [] c = "K" -> "k" [] c = "A" -> "a"
      [] c = "F" -> "f" [] c = "E" -> "e"
      [] OTHER -> c

lower(s) == [i \in 1..Len(s) |-> LowerChar(s[i])]

\* s.startswith(p)
startswith(s, p) == Len(s) >= Len(p) /\ SubSeq(s, 1, Len(p)) = p

\* index of the last "." of s, 0 when there is none: str.rpartition(".")
LastDot(s) ==
    LET dots == {i \in 1..Len(s) : s[i] = "."}
    IN  IF dots = {} THEN 0 ELSE CHOOSE i \in dots : \A j \in dots : j <= i

\* the type strings the factory compares against
STR_pika == <<"p", "i", "k", "a">>
STR_sql == <<"s", "q", "l">>
STR_file == <<"f", "i", "l", "e">>
STR_kafka == <<"k", "a", "f", "k", "a">>

\* ------------------------------------------------------------------ events and JSON

\* An event is a dict: a sequence of <<key, value>> items in insertion order with
\* distinct str keys. A value is None or a str.
JNull == [t |-> "null", s |-> << >>]
JStr(s) == [t |-> "str", s |-> s]

KEY_sender_id == <<"s", "e", "n", "d", "e", "r", "_", "i", "d">>
KEY_event == <<"e", "v", "e", "n", "t">>

QUOTE == "\""
BACKSLASH == "\\"

RECURSIVE Escape(_)
\* the body of a JSON string: a double quote and a backslash get a backslash
Escape(s) ==
    IF s = << >> THEN << >>
    ELSE (IF Head(s) \in {QUOTE, BACKSLASH} THEN <<BACKSLASH, Head(s)>> ELSE <<Head(s)>>)
         \o Escape(Tail(s))

DumpStr(s) == <<QUOTE>> \o Escape(s) \o <<QUOTE>>

DumpValue(v) == IF v.t = "null" THEN <<"n", "u", "l", "l">> ELSE DumpStr(v.s)

RECURSIVE DumpItems(_)
DumpItems(items) ==
    IF items = << >> THEN << >>
    ELSE DumpStr(Head(items)[1]) \o <<":", " ">> \o DumpValue(Head(items)[2])
         \o (IF Len(items) > 1 THEN <<",", " ">> ELSE << >>)
         \o DumpItems(Tail(items))

\* json.dumps(event): '{"key": value, ...}' with ", " and ": " separators
dumps(event) == <<"{">> \o DumpItems(event) \o <<"}">>

RECURSIVE LoadStrBody(_, _, _)
\* reads string characters from text[i] up to the closing quote
LoadStrBody(text, i, acc) ==
    IF i > Len(text) THEN [ok |-> FALSE, val |-> acc, next |-> i]
    ELSE IF text[i] = QUOTE THEN [ok |-> TRUE, val |-> acc, next |-> i + 1]
    ELSE IF text[i] = BACKSLASH
         THEN IF i + 1 > Len(text) THEN [ok |-> FALSE, val |-> acc, next |-> i]
              ELSE LoadStrBody(text, i + 2, Append(acc, text[i + 1]))
    ELSE LoadStrBody(text, i + 1, Append(acc, text[i]))

LoadStr(text, i) ==
    IF i <= Len(text) /\ text[i] = QUOTE THEN LoadStrBody(text, i + 1, << >>)
    ELSE [ok |-> FALSE, val |-> << >>, next |-> i]

LoadValue(text, i) ==
    IF i + 3 <= Len(text) /\ SubSeq(text, i, i + 3) = <<"n", "u", "l", "l">>
    THEN [ok |-> TRUE, val |-> JNull, next |-> i + 4]
    ELSE LET r == LoadStr(text, i)
         IN  [ok |-> r.ok, val |-> JStr(r.val), next |-> r.next]

SkipSpaces(text, i) == IF i <= Len(text) /\ text[i] = " " THEN i + 1 ELSE i

RECURSIVE LoadItems(_, _, _)
LoadItems(text, i, acc) ==
    LET k == LoadStr(text, i)
        c == SkipSpaces(text, k.next)
        v == LoadValue(text, SkipSpaces(text, c + 1))
        e == SkipSpaces(text, v.next)
    IN  IF ~k.ok \/ c > Len(text) \/ text[c] # ":" \/ ~v.ok \/ e > Len(text)
            THEN [ok |-> FALSE, val |-> acc]
        ELSE IF text[e] = "}"
            THEN [ok |-> e = Len(text), val |-> Append(acc, <<k.val, v.val>>)]
        ELSE IF text[e] = ","
            THEN LoadItems(text, SkipSpaces(text, e + 1), Append(acc, <<k.val, v.val>>))
        ELSE [ok |-> FALSE, val |-> acc]

\* json.loads(text) of an object
loads(text) ==
    IF Len(text) < 2 \/ text[1] # "{" THEN [ok |-> FALSE, val |-> << >>]
    ELSE IF text[2] = "}" THEN [ok |-> Len(text) = 2, val |-> << >>]
    ELSE LoadItems(text, 2, << >>)

\* dict equality: the same keys with the same values, in any order
DictEq(a, b) == {a[i] : i \in 1..Len(a)} = {b[i] : i \in 1..Len(b)}

\* event.get(key): the value, None when the key is missing
DictGet(event, key) ==
    IF \E i \in 1..Len(event) : event[i][1] = key
    THEN event[CHOOSE i \in 1..Len(event) : event[i][1] = key][2]
    ELSE JNull

HasKey(event, key) == \E i \in 1..Len(event) : event[i][1] = key

\* the events published in the model
Events ==
    { << >>,
      <<<<KEY_event, JStr(<<"a">>)>>>>,
      <<<<KEY_sender_id, JStr(<<"x">>)>>>>,
      <<<<KEY_sender_id, JNull>>, <<KEY_event, JStr(<<QUOTE>>)>>>>,
      <<<<KEY_event, JStr(<<"a", BACKSLASH>>)>>, <<KEY_sender_id, JStr(<<"y", QUOTE>>)>>>>,
      <<<<KEY_event, JStr(<<"n", "u", "l", "l">>)>>, <<KEY_sender_id, JStr(<< >>)>>>> }


\* ------------------------------------------------------------------ factory

\* EndpointConfig.kwargs: the keyword names the record carries besides type and url
KwargKeys == {"username", "password", "path", "host"}

\* what the body of the selected constructor (or of an external build) does with
\* these parameters in this environment: completes, or raises this error
LibOutcomes == {"ok", "ImportError", "AttributeError", "OSError"}

\* cls(*args, **kwargs) against a signature: a required name that is missing, a
\* name the signature does not have, or a name also passed explicitly is a TypeError
BindsTo(kwargs, required, allowed) == required \subseteq kwargs /\ kwargs \subseteq allowed

Construct(kind, cfg, required, allowed, bodyCanRaise) ==
    IF ~BindsTo(cfg.kwargs, required, allowed) THEN Raised("TypeError")
    ELSE IF bodyCanRaise /\ cfg.lib # "ok" THEN Raised(cfg.lib)
    ELSE Returned(kind)

\* cls(broker_config.url, **broker_config.kwargs); __init__ imports pika
PikaProducer_from_endpoint_config(cfg) ==
    Construct("PikaProducer", cfg, {"username", "password"},
              {"username", "password", "port", "queue", "loglevel"}, TRUE)

\* cls(**broker_config.kwargs); __init__ opens the log file
FileProducer_from_endpoint_config(cfg) ==
    Construct("FileProducer", cfg, {}, {"path"}, TRUE)

\* cls(broker_config.url, **broker_config.kwargs); __init__ only stores its arguments
KafkaProducer_from_endpoint_config(cfg) ==
    Construct("KafkaProducer", cfg, {},
              {"sasl_username", "sasl_password", "ssl_cafile", "ssl_certfile",
               "ssl_keyfile", "ssl_check_hostname", "topic", "security_protocol",
               "loglevel"}, FALSE)

\* cls(host=broker_config.url, **broker_config.kwargs); __init__ creates the engine
SQLProducer_from_endpoint_config(cfg) ==
    Construct("SQLProducer", cfg, {},
              {"dialect", "port", "db", "username", "password"}, TRUE)

\* What is importable in the modelled process: module "m" holding a class C that
\* implements the channel interface and an object W that has no
\* from_endpoint_config attribute.
Modules == {<<"m">>}
ModuleAttrs == {"C", "W"}

\* rasa.utils.common.class_from_module_path: import the part before the last "."
\* (ImportError when there is no such module, or no "." at all) and get the
\* attribute after it (AttributeError when the module has none of that name)
class_from_module_path(path) ==
    LET d == LastDot(path)
    IN  IF d = 0 THEN Raised("ImportError")
        ELSE IF SubSeq(path, 1, d - 1) \notin Modules THEN Raised("ImportError")
        ELSE IF Len(path) # d + 1 \/ path[Len(path)] \notin ModuleAttrs
             THEN Raised("AttributeError")
        ELSE Returned(path[Len(path)])

\* event_channel.from_endpoint_config(broker_config) on the resolved object
External_from_endpoint_config(obj, cfg) ==
    IF obj # "C" THEN Raised("AttributeError")
    ELSE IF cfg.lib # "ok" THEN Raised(cfg.lib)
    ELSE Returned("External")

\* the except clause of load_event_channel_from_module_string
Swallow(r, caught) ==
    IF r.out = "raise" /\ r.err \in caught
    THEN [res |-> Returned("None"), warn |-> 1]
    ELSE [res |-> r, warn |-> 0]

load_event_channel_from_module_string_only_import_error(cfg) ==
    LET cls == class_from_module_path(Get(cfg.type))
    IN  Swallow(IF cls.out = "raise" THEN cls
                ELSE External_from_endpoint_config(cls.val, cfg),
                {"ImportError"})

load_event_channel_from_module_string(cfg) ==
    LET cls == class_from_module_path(Get(cfg.type))
    IN  Swallow(IF cls.out = "raise" THEN cls
                ELSE External_from_endpoint_config(cls.val, cfg),
                {"AttributeError", "ImportError"})

NoWarn(r) == [res |-> r, warn |-> 0]

from_endpoint_config_case_sensitive_sql(broker_config) ==
    IF IsNone(broker_config) THEN NoWarn(Returned("None"))
    ELSE LET cfg == Get(broker_config)
         IN  IF IsNone(cfg.type) \/ cfg.type = Some(STR_pika)
                 THEN NoWarn(PikaProducer_from_endpoint_config(cfg))
             ELSE IF Get(cfg.type) = STR_sql
                 THEN NoWarn(SQLProducer_from_endpoint_config(cfg))
             ELSE IF Get(cfg.type) = STR_file
                 THEN NoWarn(FileProducer_from_endpoint_config(cfg))
             ELSE IF Get(cfg.type) = STR_kafka
                 THEN NoWarn(KafkaProducer_from_endpoint_config(cfg))
             ELSE load_event_channel_from_module_string(cfg)

from_endpoint_config(broker_config) ==
    IF IsNone(broker_config) THEN NoWarn(Returned("None"))
    ELSE LET cfg == Get(broker_config)
         IN  IF IsNone(cfg.type) \/ cfg.type = Some(STR_pika)
                 THEN NoWarn(PikaProducer_from_endpoint_config(cfg))
             ELSE IF lower(Get(cfg.type)) = STR_sql
                 THEN NoWarn(SQLProducer_from_endpoint_config(cfg))
             ELSE IF Get(cfg.type) = STR_file
                 THEN NoWarn(FileProducer_from_endpoint_config(cfg))
             ELSE IF Get(cfg.type) = STR_kafka
                 THEN NoWarn(KafkaProducer_from_endpoint_config(cfg))
             ELSE load_event_channel_from_module_string(cfg)

\* the type strings the factory is called with
SqlSpellings == {<<"s", "q", "l">>, <<"S", "Q", "L">>, <<"S", "q", "l">>, <<"s", "Q", "l">>}
OtherCaseBuiltins == {<<"P", "I", "K", "A">>, <<"P", "i", "k", "a">>, <<"F", "i", "l", "e">>,
                      <<"K", "A", "F", "K", "A">>}
UnresolvableRefs == {<<"m", ".", "X">>, <<"n", ".", "C">>, <<"m", ".", "W">>, <<"x">>, << >>}
ResolvableRefs == {<<"m", ".", "C">>}
TypeStrings ==
    {STR_pika, STR_file, STR_kafka} \cup SqlSpellings \cup OtherCaseBuiltins
        \cup UnresolvableRefs \cup ResolvableRefs

Configs ==
    {None} \cup
    {Some([type |-> t, kwargs |-> k, lib |-> l]) :
        t \in {None} \cup {Some(s) : s \in TypeStrings},
        k \in SUBSET KwargKeys, l \in LibOutcomes}

FactoryInit ==
    /\ fpc = "ready"
    /\ fcfg \in Configs
    /\ fres = NotCalled
    /\ flog = 0

\* one call of from_endpoint_config(broker_config)
FactoryCall ==
    /\ fpc = "ready"
    /\ LET r == from_endpoint_config(fcfg)
       IN  /\ fres' = r.res
           /\ flog' = flog + r.warn
    /\ fpc' = "done"
    /\ UNCHANGED fcfg


\* ------------------------------------------------------------------ SSL options

\* the files of the modelled host that hold loadable certificate material
ReadableFiles == {<<"c">>, <<"k">>, <<"a">>}

\* the values an environment variable takes: unset, set to "", a readable path,
\* a path of no file
EnvValues == {None, Some(<< >>), Some(<<"z">>)} \cup {Some(f) : f \in ReadableFiles}

Environments == [cert : EnvValues, key : EnvValues, ca : EnvValues]

HostNames == {<<"h">>, <<"a", "m", "q", "p", ":", "h">>}

\* ssl.create_default_context(cafile=...) and context.load_cert_chain(...) raise
\* when a file they are given cannot be loaded
create_rabbitmq_ssl_options_either_path(env, rabbitmq_host) ==
    IF Truthy(env.cert) \/ Truthy(env.key)
    THEN Returned(Some([server_hostname |-> rabbitmq_host,
                        verify |-> IF Truthy(env.ca) THEN "cafile" ELSE "client_auth",
                        cafile |-> IF Truthy(env.ca) THEN env.ca ELSE None,
                        certfile |-> env.cert, keyfile |-> env.key]))
    ELSE Returned(None)

create_rabbitmq_ssl_options(env, rabbitmq_host) ==
    IF Truthy(env.cert) /\ Truthy(env.key)
    THEN IF Truthy(env.ca) /\ Get(env.ca) \notin ReadableFiles
             THEN [out |-> "raise", val |-> None, err |-> "OSError"]
         ELSE IF Get(env.cert) \notin ReadableFiles \/ Get(env.key) \notin ReadableFiles
             THEN [out |-> "raise", val |-> None, err |-> "OSError"]
         ELSE Returned(Some([server_hostname |-> rabbitmq_host,
                             verify |-> IF Truthy(env.ca) THEN "cafile" ELSE "client_auth",
                             cafile |-> IF Truthy(env.ca) THEN env.ca ELSE None,
                             certfile |-> env.cert, keyfile |-> env.key]))
    ELSE Returned(None)

SslInit ==
    /\ spc = "ready"
    /\ senv \in Environments
    /\ shost \in {None} \cup {Some(h) : h \in HostNames}
    /\ sres = [out |-> "-", val |-> None, err |-> "-"]

\* one call of create_rabbitmq_ssl_options(rabbitmq_host)
SslCall ==
    /\ spc = "ready"
    /\ sres' = create_rabbitmq_ssl_options(senv, shost)
    /\ spc' = "done"
    /\ UNCHANGED <<senv, shost>>


\* ------------------------------------------------------------------ Pika and Kafka producers

\* the number of publish calls made on the producer: one at a time, overlapping
MaxCalls == 3
MaxOverlappingCalls == 2
Callers == {1, 2}

DEFAULT_PORT == 5672
CONNECTION_ATTEMPTS == 20
RETRY_DELAY == 5

STR_amqp == <<"a", "m", "q", "p">>
STR_rasa_core_events == <<"r", "a", "s", "a", "_", "c", "o", "r", "e", "_", "e", "v", "e", "n", "t", "s">>

\* the two events the callers of the producers publish
ConnEvents ==
    { <<<<KEY_sender_id, JStr(<<"x">>)>>>>,
      <<<<KEY_event, JStr(<<"a", BACKSLASH>>)>>, <<KEY_sender_id, JStr(<<"y", QUOTE>>)>>>> }

\* PikaProducer.__init__
PikaProducer_init(host, username, password) ==
    [kind |-> "pika", host |-> host, port |-> DEFAULT_PORT, queue |-> STR_rasa_core_events,
     credentials |-> IF Truthy(username) /\ Truthy(password)
                     THEN Some([cls |-> "PlainCredentials",
                                username |-> Get(username), password |-> Get(password)])
                     ELSE None]

\* KafkaProducer.__init__
KafkaProducer_init(host, security_protocol, ssl_check_hostname) ==
    [kind |-> "kafka", host |-> host, topic |-> STR_rasa_core_events,
     security_protocol |-> security_protocol,
     sasl_username |-> None, sasl_password |-> None,
     ssl_cafile |-> None, ssl_certfile |-> None, ssl_keyfile |-> None,
     ssl_check_hostname |-> ssl_check_hostname]

\* the credentials an amqp URL carries itself
UrlCredentials == [cls |-> "PlainCredentials", username |-> <<"g">>, password |-> <<"g">>]

\* pika.URLParameters(url): host, port and credentials come from the URL, the
\* rest are pika's defaults (one connection attempt, retry delay 2)
URLParameters(url) ==
    [cls |-> "URLParameters", host |-> SubSeq(url, Len(STR_amqp) + 2, Len(url)),
     port |-> DEFAULT_PORT, credentials |-> Some(UrlCredentials),
     connection_attempts |-> 1, retry_delay |-> 2, ssl_options |-> None]

\* the value _open_connection hands to pika.BlockingConnection; ssl is the outcome
\* of create_rabbitmq_ssl_options(self.host), evaluated only on the bare-host path
PikaProducer_parameters(a, ssl) ==
    IF startswith(a.host, STR_amqp)
    THEN IF ~IsNone(a.credentials)
         THEN Get(a.credentials)
         ELSE [URLParameters(a.host) EXCEPT !.connection_attempts = CONNECTION_ATTEMPTS,
                                            !.retry_delay = RETRY_DELAY]
    ELSE [cls |-> "ConnectionParameters", host |-> a.host, port |-> a.port,
          credentials |-> a.credentials, connection_attempts |-> CONNECTION_ATTEMPTS,
          retry_delay |-> RETRY_DELAY, ssl_options |-> ssl.val]

NewCall(p, event) ==
    [by |-> p, event |-> event, ops |-> << >>, params |-> None,
     result |-> "running", err |-> "-"]

Did(c, op, conn) == [c EXCEPT !.ops = Append(@, [op |-> op, conn |-> conn])]
Fail(c, e) == [c EXCEPT !.result = "raised", !.err = e]

\* a caller enters publish(event); in sequential mode there is one caller, which
\* makes its calls one after the other
Enter(p, event, first) ==
    /\ pc[p] = "idle"
    /\ mode = "concurrent" \/ p = 1
    /\ Len(calls) < (IF mode = "concurrent" THEN MaxOverlappingCalls ELSE MaxCalls)
    /\ calls' = Append(calls, NewCall(p, event))
    /\ cur' = [cur EXCEPT ![p] = Len(calls) + 1]
    /\ pc' = [pc EXCEPT ![p] = first]

\* the call of caller p raises e: control leaves publish at once
Leave(p, c, e) ==
    /\ calls' = [calls EXCEPT ![cur[p]] = Fail(c, e)]
    /\ pc' = [pc EXCEPT ![p] = "idle"]

PikaProducer_publish(p, event) ==
    /\ adapter.kind = "pika"
    /\ Enter(p, event, "connect")
    /\ UNCHANGED <<factoryVars, sslVars, fileVars, sqlVars, mode, adapter, self_connection, self_channel, self_producer, conns>>

\* _open_connection up to self.connection = pika.BlockingConnection(parameters)
PikaProducer_open_connection(p, reachable) ==
    /\ adapter.kind = "pika"
    /\ pc[p] = "connect"
    /\ LET url == startswith(adapter.host, STR_amqp)
           ssl == IF url THEN Returned(None)
                  ELSE create_rabbitmq_ssl_options(senv, Some(adapter.host))
           parameters == PikaProducer_parameters(adapter, ssl)
           c == [calls[cur[p]] EXCEPT !.params = Some(parameters)]
       IN  IF ssl.out = "raise"
               THEN /\ Leave(p, calls[cur[p]], ssl.err)
                    /\ UNCHANGED <<self_connection, conns>>
           ELSE IF parameters.cls \notin {"URLParameters", "ConnectionParameters"}
               THEN /\ Leave(p, c, "TypeError")
                    /\ UNCHANGED <<self_connection, conns>>
           ELSE IF ~reachable
               THEN /\ Leave(p, c, "AMQPConnectionError")
                    /\ UNCHANGED <<self_connection, conns>>
           ELSE /\ conns' = Append(conns, [kind |-> "pika", by |-> cur[p], config |-> parameters,
                                           open |-> TRUE, declared |-> << >>, sent |-> << >>])
                /\ self_connection' = Len(conns) + 1
                /\ calls' = [calls EXCEPT ![cur[p]] = Did(c, "open", Len(conns) + 1)]
                /\ pc' = [pc EXCEPT ![p] = "channel"]
    /\ UNCHANGED <<factoryVars, sslVars, fileVars, sqlVars, mode, adapter, self_channel, self_producer, cur>>

\* self.channel = self.connection.channel()
PikaProducer_open_channel(p, ok) ==
    /\ adapter.kind = "pika"
    /\ pc[p] = "channel"
    /\ IF ~conns[self_connection].open \/ ~ok
       THEN /\ Leave(p, calls[cur[p]], "AMQPError")
            /\ UNCHANGED self_channel
       ELSE /\ self_channel' = self_connection
            /\ calls' = [calls EXCEPT ![cur[p]] = Did(@, "channel", self_connection)]
            /\ pc' = [pc EXCEPT ![p] = "declare"]
    /\ UNCHANGED <<factoryVars, sslVars, fileVars, sqlVars, mode, adapter, self_connection, self_producer, conns, cur>>

\* self.channel.queue_declare(self.queue, durable=True)
PikaProducer_queue_declare(p, ok) ==
    /\ adapter.kind = "pika"
    /\ pc[p] = "declare"
    /\ IF ~conns[self_channel].open \/ ~ok
       THEN /\ Leave(p, calls[cur[p]], "AMQPError")
            /\ UNCHANGED conns
       ELSE /\ conns' = [conns EXCEPT ![self_channel].declared =
                            Append(@, [queue |-> adapter.queue, durable |-> TRUE])]
            /\ calls' = [calls EXCEPT ![cur[p]] = Did(@, "declare", self_channel)]
            /\ pc' = [pc EXCEPT ![p] = "publish"]
    /\ UNCHANGED <<factoryVars, sslVars, fileVars, sqlVars, mode, adapter, self_connection, self_channel, self_producer, cur>>

\* _publish(json.dumps(event)): self.channel.basic_publish("", self.queue, body)
PikaProducer_basic_publish(p, ok) ==
    /\ adapter.kind = "pika"
    /\ pc[p] = "publish"
    /\ IF ~conns[self_channel].open \/ ~ok
       THEN /\ Leave(p, calls[cur[p]], "AMQPError")
            /\ UNCHANGED conns
       ELSE /\ conns' = [conns EXCEPT ![self_channel].sent =
                            Append(@, [exchange |-> << >>, routing_key |-> adapter.queue,
                                       body |-> dumps(calls[cur[p]].event)])]
            /\ calls' = [calls EXCEPT ![cur[p]] = Did(@, "send", self_channel)]
            /\ pc' = [pc EXCEPT ![p] = "close"]
    /\ UNCHANGED <<factoryVars, sslVars, fileVars, sqlVars, mode, adapter, self_connection, self_channel, self_producer, cur>>

PikaProducer_close_skipped(p) ==
    /\ adapter.kind = "pika"
    /\ pc[p] = "close"
    /\ calls' = [calls EXCEPT ![cur[p]].result = "returned"]
    /\ pc' = [pc EXCEPT ![p] = "idle"]
    /\ UNCHANGED <<factoryVars, sslVars, fileVars, sqlVars, mode, adapter, self_connection, self_channel, self_producer, conns, cur>>

\* _close(): self.connection.close(), which raises on a connection already closed
PikaProducer_close(p) ==
    /\ adapter.kind = "pika"
    /\ pc[p] = "close"
    /\ IF ~conns[self_connection].open
       THEN /\ Leave(p, calls[cur[p]], "ConnectionWrongStateError")
            /\ UNCHANGED conns
       ELSE /\ conns' = [conns EXCEPT ![self_connection].open = FALSE]
            /\ calls' = [calls EXCEPT ![cur[p]] =
                            [Did(@, "close", self_connection) EXCEPT !.result = "returned"]]
            /\ pc' = [pc EXCEPT ![p] = "idle"]
    /\ UNCHANGED <<factoryVars, sslVars, fileVars, sqlVars, mode, adapter, self_connection, self_channel, self_producer, cur>>


KafkaProducer_publish(p, event) ==
    /\ adapter.kind = "kafka"
    /\ Enter(p, event, "create")
    /\ UNCHANGED <<factoryVars, sslVars, fileVars, sqlVars, mode, adapter, self_connection, self_channel, self_producer, conns>>

\* the keyword arguments _create_producer gives kafka.KafkaProducer, None when
\* neither branch is taken
KafkaProducer_config_check_hostname_as_given(a) ==
    IF a.security_protocol = "SASL_PLAINTEXT"
    THEN Some([bootstrap_servers |-> <<a.host>>, sasl_plain_username |-> a.sasl_username,
               sasl_plain_password |-> a.sasl_password, sasl_mechanism |-> "PLAIN",
               security_protocol |-> a.security_protocol])
    ELSE Some([bootstrap_servers |-> <<a.host>>, ssl_cafile |-> a.ssl_cafile,
               ssl_certfile |-> a.ssl_certfile, ssl_keyfile |-> a.ssl_keyfile,
               ssl_check_hostname |-> a.ssl_check_hostname,
               security_protocol |-> a.security_protocol])

KafkaProducer_config(a) ==
    IF a.security_protocol = "SASL_PLAINTEXT"
    THEN Some([bootstrap_servers |-> <<a.host>>, sasl_plain_username |-> a.sasl_username,
               sasl_plain_password |-> a.sasl_password, sasl_mechanism |-> "PLAIN",
               security_protocol |-> a.security_protocol])
    ELSE IF a.security_protocol = "SSL"
    THEN Some([bootstrap_servers |-> <<a.host>>, ssl_cafile |-> a.ssl_cafile,
               ssl_certfile |-> a.ssl_certfile, ssl_keyfile |-> a.ssl_keyfile,
               ssl_check_hostname |-> FALSE,
               security_protocol |-> a.security_protocol])
    ELSE None

\* _create_producer(): self.producer = kafka.KafkaProducer(...) in the two
\* recognised branches, nothing otherwise
KafkaProducer_create_producer(p, reachable) ==
    /\ adapter.kind = "kafka"
    /\ pc[p] = "create"
    /\ LET config == KafkaProducer_config(adapter)
       IN  IF IsNone(config)
               THEN /\ pc' = [pc EXCEPT ![p] = "send"]
                    /\ UNCHANGED <<self_producer, conns, calls>>
           ELSE IF ~reachable
               THEN /\ Leave(p, calls[cur[p]], "NoBrokersAvailable")
                    /\ UNCHANGED <<self_producer, conns>>
           ELSE /\ conns' = Append(conns, [kind |-> "kafka", by |-> cur[p], config |-> Get(config),
                                           open |-> TRUE, declared |-> << >>, sent |-> << >>])
                /\ self_producer' = Len(conns) + 1
                /\ calls' = [calls EXCEPT ![cur[p]] = Did(@, "open", Len(conns) + 1)]
                /\ pc' = [pc EXCEPT ![p] = "send"]
    /\ UNCHANGED <<factoryVars, sslVars, fileVars, sqlVars, mode, adapter, self_connection, self_channel, cur>>

\* _publish(event): self.producer.send(self.topic, event); the client serializes
\* the value with json.dumps
KafkaProducer_send(p, ok) ==
    /\ adapter.kind = "kafka"
    /\ pc[p] = "send"
    /\ IF self_producer = 0
       THEN /\ Leave(p, calls[cur[p]], "AttributeError")
            /\ UNCHANGED conns
       ELSE IF ~conns[self_producer].open \/ ~ok
       THEN /\ Leave(p, calls[cur[p]], "KafkaError")
            /\ UNCHANGED conns
       ELSE /\ conns' = [conns EXCEPT ![self_producer].sent =
                            Append(@, [topic |-> adapter.topic,
                                       value |-> dumps(calls[cur[p]].event)])]
            /\ calls' = [calls EXCEPT ![cur[p]] = Did(@, "send", self_producer)]
            /\ pc' = [pc EXCEPT ![p] = "close"]
    /\ UNCHANGED <<factoryVars, sslVars, fileVars, sqlVars, mode, adapter, self_connection, self_channel, self_producer, cur>>

\* _close(): self.producer.close(); closing a closed producer does nothing
KafkaProducer_close(p) ==
    /\ adapter.kind = "kafka"
    /\ pc[p] = "close"
    /\ conns' = [conns EXCEPT ![self_producer].open = FALSE]
    /\ calls' = [calls EXCEPT ![cur[p]] =
                    [Did(@, "close", self_producer) EXCEPT !.result = "returned"]]
    /\ pc' = [pc EXCEPT ![p] = "idle"]
    /\ UNCHANGED <<factoryVars, sslVars, fileVars, sqlVars, mode, adapter, self_connection, self_channel, self_producer, cur>>

\* the producers the model constructs
Adapters ==
    {PikaProducer_init(h, u, pw) :
        h \in HostNames, u \in {None, Some(<<"u">>)}, pw \in {None, Some(<<"p">>)}}
    \cup
    {KafkaProducer_init(<<"h">>, sp, chk) :
        sp \in {"SASL_PLAINTEXT", "SSL", "PLAINTEXT"}, chk \in BOOLEAN}

\* the environments the producers run in: no TLS material, loadable material,
\* a certificate path of no file
ConnEnvironments ==
    {[cert |-> None, key |-> None, ca |-> None],
     [cert |-> Some(<<"c">>), key |-> Some(<<"k">>), ca |-> None],
     [cert |-> Some(<<"z">>), key |-> Some(<<"k">>), ca |-> Some(<<"a">>)]}

\* ------------------------------------------------------------------ FileProducer

MaxProducers == 2
MaxFilePublishes == 3

DEFAULT_LOG_FILE_NAME == <<"r", "a", "s", "a", "_", "e", "v", "e", "n", "t", ".", "l", "o", "g">>

FilePaths == {DEFAULT_LOG_FILE_NAME, <<"a">>, <<"b">>}

FileEvents ==
    { <<<<KEY_event, JStr(<<"a">>)>>>>,
      <<<<KEY_sender_id, JNull>>, <<KEY_event, JStr(<<QUOTE>>)>>>>,
      <<<<KEY_event, JStr(<<"a", BACKSLASH>>)>>, <<KEY_sender_id, JStr(<<"y", QUOTE>>)>>>> }

\* __init__(path): self.path = path or DEFAULT_LOG_FILE_NAME, then _event_logger()
\* adds a FileHandler for that path to the logger named "event-logger", which
\* logging.getLogger returns the same object for on every call
FileProducer_init(path) ==
    /\ Len(producers) < MaxProducers
    /\ LET self_path == IF Truthy(path) THEN Get(path) ELSE DEFAULT_LOG_FILE_NAME
       IN  /\ handlers' = Append(handlers, self_path)
           /\ producers' = Append(producers, [path |-> self_path, published |-> << >>])
    /\ UNCHANGED <<factoryVars, sslVars, connVars, sqlVars, files>>

RECURSIVE Emit(_, _, _)
\* Logger.info(message): every handler of the logger appends the formatted line
\* ("%(message)s") to its file and flushes it
Emit(hs, fs, line) ==
    IF hs = << >> THEN fs
    ELSE Emit(Tail(hs), [fs EXCEPT ![Head(hs)] = Append(@, line)], line)

\* publish(event): self.event_logger.info(json.dumps(event)), then
\* self.event_logger.handlers[0].flush()
FileProducer_publish(i, event) ==
    /\ i \in 1..Len(producers)
    /\ Len(files[DEFAULT_LOG_FILE_NAME]) + Len(files[<<"a">>]) + Len(files[<<"b">>])
          < MaxFilePublishes * MaxProducers
    /\ files' = Emit(handlers, files, dumps(event))
    /\ producers' = [producers EXCEPT ![i].published = Append(@, event)]
    /\ UNCHANGED <<factoryVars, sslVars, connVars, sqlVars, handlers>>

FileOff ==
    /\ handlers = << >> /\ producers = << >>
    /\ files = [f \in FilePaths |-> << >>]

FileInit == FileOff

FileNext ==
    \/ \E path \in {None, Some(<< >>)} \cup {Some(<<"a">>), Some(<<"b">>)} : FileProducer_init(path)
    \/ \E i \in 1..MaxProducers, e \in FileEvents : FileProducer_publish(i, e)

\* ------------------------------------------------------------------ SQLProducer

MaxSqlPublishes == 3

\* SQLBrokerEvent(sender_id=event.get("sender_id"), data=json.dumps(event)); the
\* id is assigned by the database when the row is inserted
SQLBrokerEvent_sender_from_event_key(event) ==
    [id |-> 0, sender_id |-> DictGet(event, KEY_event), data |-> dumps(event)]

SQLBrokerEvent(event) ==
    [id |-> 0, sender_id |-> DictGet(event, KEY_sender_id), data |-> dumps(event)]

RECURSIVE Insert(_, _)
\* the flush of the pending objects: one INSERT each, ids counting up
Insert(table, pending) ==
    IF pending = << >> THEN table
    ELSE Insert(Append(table, [Head(pending) EXCEPT !.id = Len(table) + 1]), Tail(pending))

\* publish(event): self.session.add(SQLBrokerEvent(...)); self.session.commit().
\* A commit whose flush fails rolls the transaction back, which discards the pending
\* objects and leaves the session unusable until a rollback() the class never calls.
SQLProducer_publish(event, db_ok) ==
    /\ Len(sqlcalls) < MaxSqlPublishes
    /\ LET pending == Append(session_new, SQLBrokerEvent(event))
       IN  IF ~session_active
               THEN /\ session_new' = pending
                    /\ sqlcalls' = Append(sqlcalls, [event |-> event, result |-> "raised"])
                    /\ UNCHANGED <<rows, session_active>>
           ELSE IF ~db_ok
               THEN /\ session_new' = << >>
                    /\ session_active' = FALSE
                    /\ sqlcalls' = Append(sqlcalls, [event |-> event, result |-> "raised"])
                    /\ UNCHANGED rows
           ELSE /\ rows' = Insert(rows, pending)
                /\ session_new' = << >>
                /\ sqlcalls' = Append(sqlcalls, [event |-> event, result |-> "returned"])
                /\ UNCHANGED session_active
    /\ UNCHANGED <<factoryVars, sslVars, connVars, fileVars>>

SqlOff == session_new = << >> /\ session_active = TRUE /\ rows = << >> /\ sqlcalls = << >>

\* after __init__ on a fresh database: the events table exists and is empty
SqlInit == SqlOff

SqlNext == \E e \in Events, db_ok \in BOOLEAN : SQLProducer_publish(e, db_ok)


\* ------------------------------------------------------------------ specifications

FactoryOff == fpc = "off" /\ fcfg = None /\ fres = NotCalled /\ flog = 0

SslOff ==
    /\ spc = "off" /\ shost = None
    /\ sres = [out |-> "-", val |-> None, err |-> "-"]

ConnOff ==
    /\ mode = "off" /\ adapter = [kind |-> "none"]
    /\ self_connection = 0 /\ self_channel = 0 /\ self_producer = 0
    /\ conns = << >> /\ calls = << >>
    /\ pc = [p \in Callers |-> "off"] /\ cur = [p \in Callers |-> 0]

NoEnv == [cert |-> None, key |-> None, ca |-> None]

ConnInit(m) ==
    /\ mode = m
    /\ adapter \in Adapters
    /\ senv \in (IF adapter.kind = "pika" /\ ~startswith(adapter.host, STR_amqp)
                 THEN ConnEnvironments ELSE {NoEnv})
    /\ self_connection = 0 /\ self_channel = 0 /\ self_producer = 0
    /\ conns = << >> /\ calls = << >>
    /\ pc = [p \in Callers |-> "idle"] /\ cur = [p \in Callers |-> 0]

ConnNext ==
    \/ \E p \in Callers, e \in ConnEvents : PikaProducer_publish(p, e)
    \/ \E p \in Callers, r \in BOOLEAN : PikaProducer_open_connection(p, r)
    \/ \E p \in Callers, ok \in BOOLEAN : PikaProducer_open_channel(p, ok)
    \/ \E p \in Callers, ok \in BOOLEAN : PikaProducer_queue_declare(p, ok)
    \/ \E p \in Callers, ok \in BOOLEAN : PikaProducer_basic_publish(p, ok)
    \/ \E p \in Callers : PikaProducer_close(p)
    \/ \E p \in Callers, e \in ConnEvents : KafkaProducer_publish(p, e)
    \/ \E p \in Callers, r \in BOOLEAN : KafkaProducer_create_producer(p, r)
    \/ \E p \in Callers, ok \in BOOLEAN : KafkaProducer_send(p, ok)
    \/ \E p \in Callers : KafkaProducer_close(p)

FactoryNext == FactoryCall /\ UNCHANGED <<sslVars, connVars, fileVars, sqlVars>>

SslNext == SslCall /\ UNCHANGED <<factoryVars, connVars, fileVars, sqlVars>>

\* the channel factory, called once on every configuration record
InitFactory == FactoryInit /\ SslOff /\ senv = NoEnv /\ ConnOff /\ FileOff /\ SqlOff

SpecFactory == InitFactory /\ [][FactoryNext]_vars

\* the SSL option builder, called once in every environment
InitSsl == SslInit /\ FactoryOff /\ ConnOff /\ FileOff /\ SqlOff

SpecSsl == InitSsl /\ [][SslNext]_vars

\* publish calls on one Pika or Kafka producer, one at a time
InitSeq == ConnInit("sequential") /\ FactoryOff /\ SslOff /\ FileOff /\ SqlOff

SpecSeq == InitSeq /\ [][ConnNext]_vars

\* publish calls on one Pika or Kafka producer from two overlapping callers
InitConc == ConnInit("concurrent") /\ FactoryOff /\ SslOff /\ FileOff /\ SqlOff

SpecConc == InitConc /\ [][ConnNext]_vars

\* FileProducer instances constructed and published on in one process
InitFile == FileInit /\ FactoryOff /\ SslOff /\ senv = NoEnv /\ ConnOff /\ SqlOff

SpecFile == InitFile /\ [][FileNext]_vars

\* publish calls on one SQLProducer over a fresh database
InitSql == SqlInit /\ FactoryOff /\ SslOff /\ senv = NoEnv /\ ConnOff /\ FileOff

SpecSql == InitSql /\ [][SqlNext]_vars

\* ------------------------------------------------------------------ properties

\* the adapter kind a supported type selects, "-" for any other type string
SupportedKind(t) ==
    IF IsNone(t) THEN "PikaProducer"
    ELSE IF Get(t) = <<"p", "i", "k", "a">> THEN "PikaProducer"
    ELSE IF Get(t) \in SqlSpellings THEN "SQLProducer"
    ELSE IF Get(t) = <<"f", "i", "l", "e">> THEN "FileProducer"
    ELSE IF Get(t) = <<"k", "a", "f", "k", "a">> THEN "KafkaProducer"
    ELSE "-"

\* what constructing an adapter of this kind from the record does
ConstructorOutcome(kind, cfg) ==
    CASE kind = "PikaProducer" -> PikaProducer_from_endpoint_config(cfg)
      [] kind = "SQLProducer" -> SQLProducer_from_endpoint_config(cfg)
      [] kind = "FileProducer" -> FileProducer_from_endpoint_config(cfg)
      [] kind = "KafkaProducer" -> KafkaProducer_from_endpoint_config(cfg)

\* C1: for a configuration record that is not None and whose type is None, "pika",
\* "sql" in any letter case, "file" or "kafka", from_endpoint_config hands the record
\* to the constructor of the matching producer and nothing else: what it returns is
\* an instance of that kind and never None, it logs no warning, and the only
\* other outcome is the error that constructor raised. It returns None for a None
\* record.
C1_SupportedTypeBuildsMatchingAdapter ==
    fpc = "done" =>
        IF IsNone(fcfg) THEN fres = Returned("None")
        ELSE LET kind == SupportedKind(Get(fcfg).type)
             IN  kind # "-" =>
                    /\ fres # Returned("None")
                    /\ fres = ConstructorOutcome(kind, Get(fcfg))
                    /\ fres.out = "return" => fres.val = kind
                    /\ flog = 0

C1_Witness ==
    /\ fpc = "done"
    /\ ~IsNone(fcfg)
    /\ Get(fcfg).type = Some(<<"S", "Q", "L">>)
    /\ fres = Returned("SQLProducer")

\* the type strings that name neither a built-in transport nor anything loadable
NotLoadable == OtherCaseBuiltins \cup UnresolvableRefs

\* C2: for a record whose type string is not a built-in transport name and does not
\* resolve to a loadable implementation (no such module, no such class, an object
\* without from_endpoint_config, a string with no namespace part, a built-in name in
\* another letter case), from_endpoint_config returns None, logging one warning,
\* and does not raise.
C2_UnresolvableTypeGivesNone ==
    (fpc = "done" /\ ~IsNone(fcfg)) =>
        LET t == Get(fcfg).type
        IN  (~IsNone(t) /\ Get(t) \in NotLoadable) =>
                /\ fres = Returned("None")
                /\ flog = 1

C2_Witness ==
    /\ fpc = "done"
    /\ ~IsNone(fcfg)
    /\ Get(fcfg).type = Some(<<"m", ".", "X">>)
    /\ fres = Returned("None")

\* C3: from_endpoint_config turns an error into a None result only when the type
\* reference itself cannot be resolved: a None result for a record that is not None
\* means its type is not loadable, and an error raised while constructing the
\* adapter (built-in or external, of whatever kind) reaches the caller.
C3_OnlyResolutionErrorsSwallowed ==
    (fpc = "done" /\ ~IsNone(fcfg)) =>
        LET t == Get(fcfg).type
        IN  /\ fres = Returned("None") => (~IsNone(t) /\ Get(t) \in NotLoadable)
            /\ (~IsNone(t) /\ Get(t) \in ResolvableRefs /\ Get(fcfg).lib # "ok")
                   => fres = Raised(Get(fcfg).lib)

Quiet == \A p \in Callers : pc[p] = "idle"

OpsOf(k, op) == {i \in 1..Len(calls[k].ops) : calls[k].ops[i].op = op}

\* the connections / producers call k opened
OpenedBy(k) == {i \in 1..Len(conns) : conns[i].by = k}

\* the message a publish of this event puts on the wire
Message(event) ==
    IF adapter.kind = "pika"
    THEN [exchange |-> << >>, routing_key |-> adapter.queue, body |-> dumps(event)]
    ELSE [topic |-> adapter.topic, value |-> dumps(event)]

\* the steps of a publish call that ran to its end on connection id
FullRun(id) ==
    IF adapter.kind = "pika"
    THEN <<[op |-> "open", conn |-> id], [op |-> "channel", conn |-> id],
           [op |-> "declare", conn |-> id], [op |-> "send", conn |-> id],
           [op |-> "close", conn |-> id]>>
    ELSE <<[op |-> "open", conn |-> id], [op |-> "send", conn |-> id],
           [op |-> "close", conn |-> id]>>

\* C4: under every interleaving of two publish calls on one producer, each call
\* sends on and closes only the connection / producer it opened itself, and when
\* both calls are over none that was opened by a call that returned is still open.
C4_ConcurrentPublishesIndependent ==
    /\ \A k \in 1..Len(calls) : \A i \in 1..Len(calls[k].ops) :
           calls[k].ops[i].op \in {"send", "close"} => conns[calls[k].ops[i].conn].by = k
    /\ Quiet => \A k \in 1..Len(calls) :
           calls[k].result = "returned" => \A c \in OpenedBy(k) : ~conns[c].open

\* C8: with an amqp URL as host, the value given to pika.BlockingConnection is the
\* parameters parsed from the URL with 20 connection attempts and retry delay 5,
\* carrying the explicit credentials when username and password were both given
\* and the URL's own credentials otherwise.
C8_UrlParametersKeptWithCredentials ==
    (adapter.kind = "pika" /\ startswith(adapter.host, STR_amqp)) =>
        \A k \in 1..Len(calls) :
            ~IsNone(calls[k].params) =>
                LET prm == Get(calls[k].params)
                IN  /\ prm.cls = "URLParameters"
                    /\ prm.host = URLParameters(adapter.host).host
                    /\ prm.port = URLParameters(adapter.host).port
                    /\ prm.connection_attempts = 20
                    /\ prm.retry_delay = 5
                    /\ prm.credentials = IF IsNone(adapter.credentials)
                                         THEN Some(UrlCredentials) ELSE adapter.credentials

\* C9: when publish calls are made one at a time, a call that returned normally
\* opened a fresh connection / producer, (Pika) opened a channel on it and declared
\* the queue durable, sent exactly one message carrying its event on it and closed
\* it, in this order; no call ever sends on a connection another call opened; a
\* call that raised after opening never closed its connection, which stays open;
\* so between calls the only open connections are those of calls that raised.
C9_PerCallLifecycle ==
    /\ \A k \in 1..Len(calls) :
          /\ calls[k].result = "returned" =>
                \E id \in OpenedBy(k) :
                    /\ OpenedBy(k) = {id}
                    /\ calls[k].ops = FullRun(id)
                    /\ conns[id].sent = <<Message(calls[k].event)>>
                    /\ adapter.kind = "pika" =>
                          conns[id].declared = <<[queue |-> adapter.queue, durable |-> TRUE]>>
                    /\ ~conns[id].open
          /\ \A i \in OpsOf(k, "send") : conns[calls[k].ops[i].conn].by = k
          /\ calls[k].result = "raised" =>
                /\ OpsOf(k, "close") = {}
                /\ \A c \in OpenedBy(k) : conns[c].open
    /\ Quiet => \A c \in 1..Len(conns) :
          conns[c].open => calls[conns[c].by].result = "raised"

\* a call that raised after opening, followed by a call that returned
C9_Witness ==
    /\ mode = "sequential"
    /\ Quiet
    /\ \E k1, k2 \in 1..Len(calls) :
          /\ k1 < k2
          /\ calls[k1].result = "raised" /\ OpenedBy(k1) # {}
          /\ calls[k2].result = "returned"
    /\ adapter.kind = "pika"

\* C10: a KafkaProducer whose security_protocol is neither "SASL_PLAINTEXT" nor
\* "SSL" never creates a producer: every publish call on it, at any time, raises
\* AttributeError at the send having sent and closed nothing. With a recognised
\* value every producer created is configured for that protocol, the SSL one always
\* with ssl_check_hostname False whatever the constructor was given.
C10_UnrecognisedProtocolNeverCreatesProducer ==
    adapter.kind = "kafka" =>
        IF adapter.security_protocol \notin {"SASL_PLAINTEXT", "SSL"}
        THEN /\ conns = << >>
             /\ self_producer = 0
             /\ \A p \in Callers : pc[p] # "close"
             /\ \A k \in 1..Len(calls) :
                   /\ calls[k].ops = << >>
                   /\ calls[k].result \in {"running", "raised"}
                   /\ calls[k].result = "raised" => calls[k].err = "AttributeError"
        ELSE \A c \in 1..Len(conns) :
                /\ conns[c].config.security_protocol = adapter.security_protocol
                /\ adapter.security_protocol = "SSL" =>
                      conns[c].config.ssl_check_hostname = FALSE
                /\ adapter.security_protocol = "SASL_PLAINTEXT" =>
                      conns[c].config.sasl_mechanism = "PLAIN"

\* the second publish on a producer with an unrecognised protocol has failed too
C10_Witness ==
    /\ adapter.kind = "kafka"
    /\ adapter.security_protocol = "PLAINTEXT"
    /\ Len(calls) = 2
    /\ calls[2].result = "raised" /\ calls[2].err = "AttributeError"


\* ---- FileProducer and SQLProducer

Last(q) == q[Len(q)]

\* C5: with any number of FileProducer instances in the process, the file of each
\* holds exactly one line per publish call made on that instance, and its last
\* line parses to the event last published on that instance.
C5_OneLinePerPublishInOwnFile ==
    \A i \in 1..Len(producers) :
        LET own == files[producers[i].path]
            published == producers[i].published
        IN  /\ Len(own) = Len(published)
            /\ published # << >> =>
                  /\ loads(Last(own)).ok
                  /\ DictEq(loads(Last(own)).val, Last(published))

ReturnedCalls == SelectSeq(sqlcalls, LAMBDA c : c.result = "returned")

\* C6: the events table holds exactly one row per SQLProducer.publish call that
\* returned, in call order and with distinct ids; the row's data parses to the
\* event published and its sender_id is the event's "sender_id" value when the
\* event has that key and null when it has not. A call that raised added no row.
C6_OneCommittedRowPerPublish ==
    /\ Len(rows) = Len(ReturnedCalls)
    /\ \A j \in 1..Len(rows) :
          LET event == ReturnedCalls[j].event
          IN  /\ rows[j].id = j
              /\ loads(rows[j].data).ok
              /\ DictEq(loads(rows[j].data).val, event)
              /\ rows[j].sender_id =
                    IF \E n \in 1..Len(event) : event[n][1] = KEY_sender_id
                    THEN event[CHOOSE n \in 1..Len(event) : event[n][1] = KEY_sender_id][2]
                    ELSE JNull

\* two events published, one with a sender_id and one without the key
C6_Witness ==
    /\ Len(rows) = 2
    /\ rows[1].sender_id = JStr(<<"x">>)
    /\ ~HasKey(ReturnedCalls[2].event, KEY_sender_id)
    /\ rows[2].sender_id = JNull


====
